---- MODULE Spec2Model ----
(***************************************************************************)
(* Automatic watering of indoor plants: PythonApplication1.py.             *)
(* setup() configures the relay pin and the ADS1115 channel, main_loop()   *)
(* polls the soil-moisture sensor and runs the pump through control_pump() *)
(* when the normalised moisture is below the threshold, and cleanup()      *)
(* switches the pump off and releases the GPIO in the finally clause.      *)
(*                                                                         *)
(* Two specifications are given.  Spec is the program: setup, main_loop    *)
(* and cleanup with KeyboardInterrupt and hardware faults arriving at any  *)
(* statement.  UnitSpec drives the two leaf components directly            *)
(* (read_moisture_percentage's arithmetic under arbitrary calibration, and *)
(* control_pump under arbitrary call sequences).                           *)
(***************************************************************************)
EXTENDS Integers, Sequences, FiniteSets, TLC

\* ---------------------------------------------------------------- settings
MOISTURE_DRY == 25000
MOISTURE_WET == 15000
THRESHOLD_PERCENT == 40
PUMP_TIME_SEC == 3
CHECK_INTERVAL_SEC == 60

\* ------------------------------------------------------------------ bounds
\* stop signals (Ctrl-C) delivered in one run
MaxSignals == 2
\* consecutive control_pump(False) calls issued by the component driver
MaxCalls == 3
\* longest activation the component driver asks for, in seconds
MaxDuration == 2

\* raw ADC codes the sensor channel is sampled at
RawSamples == {0, 14999, 15000, 15001, 17500, 20000, 20900, 21000, 21480,
               24999, 25000, 25001, 65535}
\* raw ADC codes the sensor delivers while the program runs
SensorSamples == {15000, 20900, 21000, 21480, 25000}
\* calibration points tried by the component driver
CalSamples == {15000, 20000, 25000}

\* ------------------------------------------------- exact real arithmetic
\* Python floats are modelled as exact rationals [n, d] in lowest terms, d > 0.
Abs(x) == IF x < 0 THEN -x ELSE x

RECURSIVE GCD(_, _)
GCD(a, b) == IF b = 0 THEN a ELSE GCD(b, a % b)

Rat(n, d) ==
  LET g == GCD(Abs(n), Abs(d))
      s == IF d < 0 THEN -1 ELSE 1
  IN  [n |-> (s * n) \div g, d |-> (s * d) \div g]

RatLt(p, q) == p.n * q.d < q.n * p.d
RatLe(p, q) == p.n * q.d <= q.n * p.d
RatEq(p, q) == p.n * q.d = q.n * p.d
RatMin(p, q) == IF RatLe(p, q) THEN p ELSE q
RatMax(p, q) == IF RatLe(p, q) THEN q ELSE p

\* the interpolation with the direction not inverted
Interpolate_notInverted(raw, dry, wet) == Rat((raw - wet) * 100, dry - wet)

\* the interpolation left as a fraction of one
Interpolate_noScale(raw, dry, wet) == Rat(dry - raw, dry - wet)

\* line 56-57: ((MOISTURE_DRY - raw_value) / (MOISTURE_DRY - MOISTURE_WET)) * 100
Interpolate(raw, dry, wet) == Rat((dry - raw) * 100, dry - wet)

\* line 58: max(0.0, min(100.0, percentage))
Clamp(p) == RatMax(Rat(0, 1), RatMin(Rat(100, 1), p))

\* the two saturation values exchanged
Normalize_swapped(raw, dry, wet) ==
  IF raw >= dry
    THEN [branch |-> "dry", err |-> FALSE, pre |-> Rat(100, 1), val |-> Rat(100, 1)]
    ELSE IF raw <= wet
      THEN [branch |-> "wet", err |-> FALSE, pre |-> Rat(0, 1), val |-> Rat(0, 1)]
      ELSE IF dry - wet = 0
        THEN [branch |-> "interp", err |-> TRUE, pre |-> Rat(0, 1), val |-> Rat(0, 1)]
        ELSE [branch |-> "interp", err |-> FALSE,
              pre |-> Interpolate(raw, dry, wet),
              val |-> Clamp(Interpolate(raw, dry, wet))]

\* the two guards made strict
Normalize_strictGuards(raw, dry, wet) ==
  IF raw > dry
    THEN [branch |-> "dry", err |-> FALSE, pre |-> Rat(0, 1), val |-> Rat(0, 1)]
    ELSE IF raw < wet
      THEN [branch |-> "wet", err |-> FALSE, pre |-> Rat(100, 1), val |-> Rat(100, 1)]
      ELSE IF dry - wet = 0
        THEN [branch |-> "interp", err |-> TRUE, pre |-> Rat(0, 1), val |-> Rat(0, 1)]
        ELSE [branch |-> "interp", err |-> FALSE,
              pre |-> Interpolate(raw, dry, wet),
              val |-> Clamp(Interpolate(raw, dry, wet))]

\* lines 51-58 of read_moisture_percentage, for a raw value already read.
\* branch is the arm of the if/elif/else taken, err is the ZeroDivisionError
\* of the true division, pre is the percentage before the clamp of line 58.
Normalize(raw, dry, wet) ==
  IF raw >= dry
    THEN [branch |-> "dry", err |-> FALSE, pre |-> Rat(0, 1), val |-> Rat(0, 1)]
    ELSE IF raw <= wet
      THEN [branch |-> "wet", err |-> FALSE, pre |-> Rat(100, 1), val |-> Rat(100, 1)]
      ELSE IF dry - wet = 0
        THEN [branch |-> "interp", err |-> TRUE, pre |-> Rat(0, 1), val |-> Rat(0, 1)]
        ELSE [branch |-> "interp", err |-> FALSE,
              pre |-> Interpolate(raw, dry, wet),
              val |-> Clamp(Interpolate(raw, dry, wet))]

\* the comparison made non-strict
NeedsWatering_orEqual(m, threshold) == RatLe(m, Rat(threshold, 1))

\* line 89: moisture < THRESHOLD_PERCENT
NeedsWatering(m, threshold) == RatLt(m, Rat(threshold, 1))

\* line 85: {moisture:.1f}, in tenths of a percent, ties to even
Format1f(m) ==
  LET t == (m.n * 10) \div m.d
      r == (m.n * 10) % m.d
  IN  IF 2 * r > m.d \/ (2 * r = m.d /\ t % 2 = 1) THEN t + 1 ELSE t

\* the relay is active-low: lines 31, 68, 70, 73
LevelAtSetup == "HIGH"
LevelPumpOn == "LOW"
\* the relay left on after the activation
LevelPumpOff_stuck == "LOW"
LevelPumpOff == "HIGH"
\* a deactivation that toggles the pin
LevelDeactivate_toggle(level) == IF level = "HIGH" THEN "LOW" ELSE "HIGH"
LevelDeactivate(level) == "HIGH"

\* ------------------------------------------------------------------- state
VARIABLES
  pc,          \* statement about to execute, "<function>_<line>"
  gpioMode,    \* GPIO.setmode: "none" | "BOARD"
  pinDir,      \* RELAY_PIN direction: "unset" | "OUT" | "released"
  relay,       \* level of the RELAY_PIN output latch: "LOW" | "HIGH"
  i2c, ads, channel,   \* the globals of setup(): created or not
  calib,       \* MOISTURE_DRY / MOISTURE_WET
  config,      \* THRESHOLD_PERCENT / PUMP_TIME_SEC / CHECK_INTERVAL_SEC
  moisture,    \* main_loop local (result record of the normalisation)
  raw_value,   \* main_loop local
  status,      \* last status line printed: percent in tenths, raw
  state,       \* control_pump parameter
  duration,    \* control_pump parameter
  ret,         \* statement control_pump returns to
  sleepLeft,   \* seconds left in the time.sleep in progress
  pending,     \* exception to re-raise after the finally clause
  signals,     \* stop signals delivered so far
  entered,     \* main_loop was entered
  iterPumpCalls, \* control_pump(True, ...) calls in the current iteration
  offCalls,    \* control_pump(False) completions since the pump was last on
  firstOff,    \* latch level before and after the first of those completions
  exitCode,    \* "running" | "zero" | "nonzero"
  sampled,     \* raw value the last normalisation was given
  prev         \* the normalisation before the last one: [raw, out]

vars == <<pc, gpioMode, pinDir, relay, i2c, ads, channel, calib, config,
          moisture, raw_value, status, state, duration, ret, sleepLeft,
          pending, signals, entered, iterPumpCalls, offCalls, firstOff,
          exitCode, sampled, prev>>

hwVars == <<gpioMode, pinDir, relay, i2c, ads, channel>>
cfgVars == <<calib, config>>
loopVars == <<moisture, raw_value, status, sampled, prev>>
callVars == <<state, duration, ret>>
ghostVars == <<entered, iterPumpCalls, offCalls, firstOff>>

NoReading == Normalize(MOISTURE_DRY, MOISTURE_DRY, MOISTURE_WET)

Levels == {"LOW", "HIGH"}

SetupPcs == {"setup_29", "setup_30", "setup_31", "setup_35", "setup_36",
             "setup_37", "setup_39", "main_116"}
LoopPcs == {"main_loop_80", "main_loop_81", "main_loop_84", "main_loop_89",
            "main_loop_97", "main_loop_99"}
PumpPcs == {"control_pump_66", "control_pump_69", "control_pump_71"}
CleanupPcs == {"main_loop_104", "cleanup_108", "cleanup_109", "cleanup_110",
               "cleanup_111"}

\* which handler an exception raised at the current statement reaches
Region ==
  IF pc \in SetupPcs THEN "setup"
  ELSE IF pc \in LoopPcs THEN "try"
  ELSE IF pc \in PumpPcs
    THEN (IF ret = "main_loop_97" THEN "try"
          ELSE IF ret = "cleanup_110" THEN "finally" ELSE "unit")
  ELSE IF pc = "main_loop_102" THEN "except"
  ELSE IF pc \in CleanupPcs THEN "finally"
  ELSE IF pc = "unit" THEN "unit"
  ELSE "exit"

\* the state right after the module is loaded, before setup() is called:
\* the output latch of the pin holds whatever the previous user left in it
Init ==
  /\ pc = "setup_29"
  /\ gpioMode = "none"
  /\ pinDir = "unset"
  /\ relay \in Levels
  /\ i2c = FALSE /\ ads = FALSE /\ channel = FALSE
  /\ calib = [dryRaw |-> MOISTURE_DRY, wetRaw |-> MOISTURE_WET]
  /\ config = [thresholdPercent |-> THRESHOLD_PERCENT,
               actuationSeconds |-> PUMP_TIME_SEC,
               pollIntervalSeconds |-> CHECK_INTERVAL_SEC]
  /\ moisture = NoReading
  /\ raw_value = 0
  /\ status = [percent |-> 0, raw |-> 0]
  /\ state = FALSE
  /\ duration = 0
  /\ ret = "none"
  /\ sleepLeft = 0
  /\ pending = "none"
  /\ signals = 0
  /\ entered = FALSE
  /\ iterPumpCalls = 0
  /\ offCalls = 0
  /\ firstOff = [before |-> relay, after |-> relay]
  /\ exitCode = "running"
  /\ sampled = -1
  /\ prev = [raw |-> -1, out |-> NoReading]

\* ------------------------------------------------------------------ setup
\* line 29: GPIO.setmode(GPIO.BOARD)
setup_GPIO_setmode ==
  /\ pc = "setup_29"
  /\ gpioMode' = "BOARD"
  /\ pc' = "setup_30"
  /\ UNCHANGED <<pinDir, relay, i2c, ads, channel, cfgVars, loopVars, callVars,
                 sleepLeft, pending, signals, ghostVars, exitCode>>

\* line 30: GPIO.setup(RELAY_PIN, GPIO.OUT), no initial= argument: the pin
\* starts driving whatever level its output latch holds
setup_GPIO_setup ==
  /\ pc = "setup_30"
  /\ pinDir' = "OUT"
  /\ pc' = "setup_31"
  /\ UNCHANGED <<gpioMode, relay, i2c, ads, channel, cfgVars, loopVars, callVars,
                 sleepLeft, pending, signals, ghostVars, exitCode>>

\* line 31: GPIO.output(RELAY_PIN, GPIO.HIGH)
setup_GPIO_output ==
  /\ pc = "setup_31"
  /\ relay' = LevelAtSetup
  /\ pc' = "setup_35"
  /\ UNCHANGED <<gpioMode, pinDir, i2c, ads, channel, cfgVars, loopVars, callVars,
                 sleepLeft, pending, signals, ghostVars, exitCode>>

\* line 35: i2c = busio.I2C(board.SCL, board.SDA)
setup_I2C ==
  /\ pc = "setup_35"
  /\ i2c' = TRUE
  /\ pc' = "setup_36"
  /\ UNCHANGED <<gpioMode, pinDir, relay, ads, channel, cfgVars, loopVars, callVars,
                 sleepLeft, pending, signals, ghostVars, exitCode>>

\* line 36: ads = ADS.ADS1115(i2c, gain=1)
setup_ADS ==
  /\ pc = "setup_36"
  /\ ads' = TRUE
  /\ pc' = "setup_37"
  /\ UNCHANGED <<gpioMode, pinDir, relay, i2c, channel, cfgVars, loopVars, callVars,
                 sleepLeft, pending, signals, ghostVars, exitCode>>

\* line 37: channel = AnalogIn(ads, ADS.P0)
setup_AnalogIn ==
  /\ pc = "setup_37"
  /\ channel' = TRUE
  /\ pc' = "setup_39"
  /\ UNCHANGED <<gpioMode, pinDir, relay, i2c, ads, cfgVars, loopVars, callVars,
                 sleepLeft, pending, signals, ghostVars, exitCode>>

\* lines 39-41: the prints, then setup() returns to line 116
setup_return ==
  /\ pc = "setup_39"
  /\ pc' = "main_116"
  /\ UNCHANGED <<hwVars, cfgVars, loopVars, callVars, sleepLeft, pending,
                 signals, ghostVars, exitCode>>

\* line 116: main_loop() is called and enters its try block
main_call_main_loop ==
  /\ pc = "main_116"
  /\ entered' = TRUE
  /\ pc' = "main_loop_80"
  /\ UNCHANGED <<hwVars, cfgVars, loopVars, callVars, sleepLeft, pending,
                 signals, iterPumpCalls, offCalls, firstOff, exitCode>>

\* -------------------------------------------------------------- main_loop
\* line 80: moisture = read_moisture_percentage(), i.e. lines 48-58 with a
\* fresh conversion of the channel; a ZeroDivisionError leaves the try block
main_loop_read_moisture ==
  /\ pc = "main_loop_80"
  /\ \E v \in SensorSamples :
       LET out == Normalize(v, calib.dryRaw, calib.wetRaw) IN
         /\ sampled' = v
         /\ iterPumpCalls' = 0
         /\ IF out.err
              THEN /\ pc' = "main_loop_104"
                   /\ pending' = "ZeroDivisionError"
                   /\ UNCHANGED moisture
              ELSE /\ pc' = "main_loop_81"
                   /\ moisture' = out
                   /\ UNCHANGED pending
  /\ UNCHANGED <<hwVars, cfgVars, raw_value, status, prev, callVars, sleepLeft,
                 signals, entered, offCalls, firstOff, exitCode>>

\* line 81: raw_value = channel.value, a second conversion
main_loop_read_raw ==
  /\ pc = "main_loop_81"
  /\ \E v \in SensorSamples : raw_value' = v
  /\ pc' = "main_loop_84"
  /\ UNCHANGED <<hwVars, cfgVars, moisture, status, sampled, prev, callVars,
                 sleepLeft, pending, signals, ghostVars, exitCode>>

\* lines 84-86: the status line
main_loop_print_status ==
  /\ pc = "main_loop_84"
  /\ status' = [percent |-> Format1f(moisture.val), raw |-> raw_value]
  /\ pc' = "main_loop_89"
  /\ UNCHANGED <<hwVars, cfgVars, moisture, raw_value, sampled, prev, callVars,
                 sleepLeft, pending, signals, ghostVars, exitCode>>

\* the decision switching the relay itself instead of calling control_pump
main_loop_decide_direct ==
  /\ pc = "main_loop_89"
  /\ relay' = IF NeedsWatering(moisture.val, config.thresholdPercent)
                THEN "LOW" ELSE "HIGH"
  /\ pc' = "main_loop_97"
  /\ UNCHANGED <<gpioMode, pinDir, i2c, ads, channel, cfgVars, loopVars,
                 callVars, sleepLeft, pending, signals, ghostVars, exitCode>>

\* lines 89-94: the decision; line 92 calls control_pump(True, PUMP_TIME_SEC)
main_loop_decide ==
  /\ pc = "main_loop_89"
  /\ IF NeedsWatering(moisture.val, config.thresholdPercent)
       THEN /\ state' = TRUE
            /\ duration' = config.actuationSeconds
            /\ ret' = "main_loop_97"
            /\ iterPumpCalls' = iterPumpCalls + 1
            /\ pc' = "control_pump_66"
       ELSE /\ pc' = "main_loop_97"
            /\ UNCHANGED <<callVars, iterPumpCalls>>
  /\ UNCHANGED <<hwVars, cfgVars, loopVars, sleepLeft, pending, signals,
                 entered, offCalls, firstOff, exitCode>>

\* lines 97-99: the prints, then time.sleep(CHECK_INTERVAL_SEC) starts
main_loop_next ==
  /\ pc = "main_loop_97"
  /\ sleepLeft' = config.pollIntervalSeconds
  /\ pc' = "main_loop_99"
  /\ UNCHANGED <<hwVars, cfgVars, loopVars, callVars, pending, signals,
                 ghostVars, exitCode>>

\* line 99: one second of the inter-poll sleep passes
main_loop_sleep ==
  /\ pc = "main_loop_99"
  /\ sleepLeft > 0
  /\ sleepLeft' = sleepLeft - 1
  /\ UNCHANGED <<pc, hwVars, cfgVars, loopVars, callVars, pending, signals,
                 ghostVars, exitCode>>

\* the loop left after one pass
main_loop_repeat_break ==
  /\ pc = "main_loop_99"
  /\ sleepLeft = 0
  /\ pc' = "main_loop_104"
  /\ UNCHANGED <<hwVars, cfgVars, loopVars, callVars, sleepLeft, pending,
                 signals, ghostVars, exitCode>>

\* line 99 -> 78: the sleep is over, while True repeats
main_loop_repeat ==
  /\ pc = "main_loop_99"
  /\ sleepLeft = 0
  /\ pc' = "main_loop_80"
  /\ UNCHANGED <<hwVars, cfgVars, loopVars, callVars, sleepLeft, pending,
                 signals, ghostVars, exitCode>>

\* lines 101-102: except KeyboardInterrupt
main_loop_except ==
  /\ pc = "main_loop_102"
  /\ pc' = "main_loop_104"
  /\ UNCHANGED <<hwVars, cfgVars, loopVars, callVars, sleepLeft, pending,
                 signals, ghostVars, exitCode>>

\* lines 103-104: finally: cleanup()
main_loop_finally ==
  /\ pc = "main_loop_104"
  /\ pc' = "cleanup_108"
  /\ UNCHANGED <<hwVars, cfgVars, loopVars, callVars, sleepLeft, pending,
                 signals, ghostVars, exitCode>>

\* ----------------------------------------------------------- control_pump
\* lines 66-69, state true: relay on, time.sleep(duration) starts
control_pump_on ==
  /\ pc = "control_pump_66"
  /\ state
  /\ relay' = LevelPumpOn
  /\ sleepLeft' = duration
  /\ offCalls' = 0
  /\ pc' = "control_pump_69"
  /\ UNCHANGED <<gpioMode, pinDir, i2c, ads, channel, cfgVars, loopVars,
                 callVars, pending, signals, entered, iterPumpCalls,
                 firstOff, exitCode>>

\* line 69: one second of the activation passes
control_pump_sleep ==
  /\ pc = "control_pump_69"
  /\ sleepLeft > 0
  /\ sleepLeft' = sleepLeft - 1
  /\ UNCHANGED <<pc, hwVars, cfgVars, loopVars, callVars, pending, signals,
                 ghostVars, exitCode>>

\* line 70: the sleep is over, relay off
control_pump_off ==
  /\ pc = "control_pump_69"
  /\ sleepLeft = 0
  /\ relay' = LevelPumpOff
  /\ pc' = "control_pump_71"
  /\ UNCHANGED <<gpioMode, pinDir, i2c, ads, channel, cfgVars, loopVars,
                 callVars, sleepLeft, pending, signals, ghostVars, exitCode>>

\* line 71: the print, then control_pump(True, ...) returns
control_pump_return ==
  /\ pc = "control_pump_71"
  /\ pc' = ret
  /\ UNCHANGED <<hwVars, cfgVars, loopVars, callVars, sleepLeft, pending,
                 signals, ghostVars, exitCode>>

\* lines 72-73, state false: relay off, return
control_pump_false ==
  /\ pc = "control_pump_66"
  /\ ~state
  /\ relay' = LevelDeactivate(relay)
  /\ offCalls' = offCalls + 1
  /\ firstOff' = IF offCalls = 0 THEN [before |-> relay, after |-> relay']
                                  ELSE firstOff
  /\ pc' = ret
  /\ UNCHANGED <<gpioMode, pinDir, i2c, ads, channel, cfgVars, loopVars,
                 callVars, sleepLeft, pending, signals, entered,
                 iterPumpCalls, exitCode>>

\* ---------------------------------------------------------------- cleanup
\* line 108: the print
cleanup_print ==
  /\ pc = "cleanup_108"
  /\ pc' = "cleanup_109"
  /\ UNCHANGED <<hwVars, cfgVars, loopVars, callVars, sleepLeft, pending,
                 signals, ghostVars, exitCode>>

\* line 109: control_pump(False)
cleanup_control_pump ==
  /\ pc = "cleanup_109"
  /\ state' = FALSE
  /\ duration' = 0
  /\ ret' = "cleanup_110"
  /\ pc' = "control_pump_66"
  /\ UNCHANGED <<hwVars, cfgVars, loopVars, sleepLeft, pending, signals,
                 ghostVars, exitCode>>

\* line 110: GPIO.cleanup() turns the channels used back into inputs
cleanup_GPIO_cleanup ==
  /\ pc = "cleanup_110"
  /\ pinDir' = IF pinDir = "OUT" THEN "released" ELSE pinDir
  /\ gpioMode' = "none"
  /\ pc' = "cleanup_111"
  /\ UNCHANGED <<relay, i2c, ads, channel, cfgVars, loopVars, callVars,
                 sleepLeft, pending, signals, ghostVars, exitCode>>

\* cleanup() ending the process itself with status 0
cleanup_return_exit0 ==
  /\ pc = "cleanup_111"
  /\ pc' = "exit"
  /\ exitCode' = "zero"
  /\ UNCHANGED <<hwVars, cfgVars, loopVars, callVars, sleepLeft, pending,
                 signals, ghostVars>>

\* line 111, then the end of the finally clause: main_loop returns and the
\* process ends, or the pending exception is re-raised and never caught
cleanup_return ==
  /\ pc = "cleanup_111"
  /\ pc' = "exit"
  /\ exitCode' = IF pending = "none" THEN "zero" ELSE "nonzero"
  /\ UNCHANGED <<hwVars, cfgVars, loopVars, callVars, sleepLeft, pending,
                 signals, ghostVars>>

\* ------------------------------------------------------------- exceptions
\* Ctrl-C: KeyboardInterrupt is raised at the statement about to execute.
\* In the try block it reaches the except clause; in the except clause it
\* still runs the finally clause; in setup(), at line 116 or inside
\* cleanup() nothing catches it and the process dies where it stands.
KeyboardInterrupt ==
  /\ Region \in {"setup", "try", "except", "finally"}
  /\ signals < MaxSignals
  /\ signals' = signals + 1
  /\ CASE Region = "try" ->
            /\ pc' = "main_loop_102"
            /\ UNCHANGED <<pending, exitCode>>
       [] Region = "except" ->
            /\ pc' = "main_loop_104"
            /\ pending' = "KeyboardInterrupt"
            /\ UNCHANGED exitCode
       [] OTHER ->
            /\ pc' = "exit"
            /\ pending' = "KeyboardInterrupt"
            /\ exitCode' = "nonzero"
  /\ UNCHANGED <<hwVars, cfgVars, loopVars, callVars, sleepLeft, ghostVars>>

\* statements that talk to the hardware and can raise
FaultPcs == {"setup_29", "setup_30", "setup_31", "setup_35", "setup_36",
             "setup_37", "main_loop_80", "main_loop_81"}

\* a failure in setup() reported and swallowed, the program carrying on
HardwareFault_swallowed ==
  /\ pc \in FaultPcs
  /\ pending' = "HardwareFault"
  /\ pc' = IF Region = "try" THEN "main_loop_104" ELSE "main_116"
  /\ UNCHANGED <<hwVars, cfgVars, loopVars, callVars, sleepLeft, signals,
                 ghostVars, exitCode>>

\* the GPIO, the I2C bus or the ADC fails: in setup() the exception is not
\* caught; in the try block only the finally clause sees it
HardwareFault ==
  /\ pc \in FaultPcs
  /\ pending' = "HardwareFault"
  /\ IF Region = "try"
       THEN /\ pc' = "main_loop_104"
            /\ UNCHANGED exitCode
       ELSE /\ pc' = "exit"
            /\ exitCode' = "nonzero"
  /\ UNCHANGED <<hwVars, cfgVars, loopVars, callVars, sleepLeft, signals,
                 ghostVars>>

Next ==
  \/ setup_GPIO_setmode \/ setup_GPIO_setup \/ setup_GPIO_output
  \/ setup_I2C \/ setup_ADS \/ setup_AnalogIn \/ setup_return
  \/ main_call_main_loop
  \/ main_loop_read_moisture \/ main_loop_read_raw \/ main_loop_print_status
  \/ main_loop_decide \/ main_loop_next \/ main_loop_sleep \/ main_loop_repeat
  \/ main_loop_except \/ main_loop_finally
  \/ control_pump_on \/ control_pump_sleep \/ control_pump_off
  \/ control_pump_return \/ control_pump_false
  \/ cleanup_print \/ cleanup_control_pump \/ cleanup_GPIO_cleanup
  \/ cleanup_return
  \/ KeyboardInterrupt \/ HardwareFault

Spec == Init /\ [][Next]_vars

\* the steps the interpreter takes by itself: everything but the stop
\* signal and the hardware failing
ProgramStep ==
  \/ setup_GPIO_setmode \/ setup_GPIO_setup \/ setup_GPIO_output
  \/ setup_I2C \/ setup_ADS \/ setup_AnalogIn \/ setup_return
  \/ main_call_main_loop
  \/ main_loop_read_moisture \/ main_loop_read_raw \/ main_loop_print_status
  \/ main_loop_decide \/ main_loop_next \/ main_loop_sleep \/ main_loop_repeat
  \/ main_loop_except \/ main_loop_finally
  \/ control_pump_on \/ control_pump_sleep \/ control_pump_off
  \/ control_pump_return \/ control_pump_false
  \/ cleanup_print \/ cleanup_control_pump \/ cleanup_GPIO_cleanup
  \/ cleanup_return

\* the interpreter never stalls and every time.sleep ends
LiveSpec == Init /\ [][Next]_vars /\ WF_vars(ProgramStep)

\* ------------------------------------------------- the components alone
\* A driver that has run setup() and calls the normalisation (under any
\* calibration) and control_pump in any order, interrupting activations.
UnitInit ==
  /\ pc = "unit"
  /\ gpioMode = "BOARD"
  /\ pinDir = "OUT"
  /\ relay = LevelAtSetup
  /\ i2c = TRUE /\ ads = TRUE /\ channel = TRUE
  /\ calib \in [dryRaw : CalSamples, wetRaw : CalSamples]
  /\ config = [thresholdPercent |-> THRESHOLD_PERCENT,
               actuationSeconds |-> PUMP_TIME_SEC,
               pollIntervalSeconds |-> CHECK_INTERVAL_SEC]
  /\ moisture = NoReading
  /\ raw_value = 0
  /\ status = [percent |-> 0, raw |-> 0]
  /\ state = FALSE
  /\ duration = 0
  /\ ret = "unit"
  /\ sleepLeft = 0
  /\ pending = "none"
  /\ signals = 0
  /\ entered = FALSE
  /\ iterPumpCalls = 0
  /\ offCalls = 0
  /\ firstOff = [before |-> relay, after |-> relay]
  /\ exitCode = "running"
  /\ sampled = -1
  /\ prev = [raw |-> -1, out |-> NoReading]

\* lines 51-58 applied to a raw value
unit_normalize ==
  /\ pc = "unit"
  /\ \E v \in RawSamples :
       /\ sampled' = v
       /\ moisture' = Normalize(v, calib.dryRaw, calib.wetRaw)
  /\ prev' = [raw |-> sampled, out |-> moisture]
  /\ UNCHANGED <<pc, hwVars, cfgVars, raw_value, status, callVars, sleepLeft,
                 pending, signals, ghostVars, exitCode>>

\* control_pump(True, d)
unit_activate ==
  /\ pc = "unit"
  /\ \E d \in 0..MaxDuration : duration' = d
  /\ state' = TRUE
  /\ ret' = "unit"
  /\ pc' = "control_pump_66"
  /\ UNCHANGED <<hwVars, cfgVars, loopVars, sleepLeft, pending, signals,
                 ghostVars, exitCode>>

\* control_pump(False)
unit_deactivate ==
  /\ pc = "unit"
  /\ offCalls < MaxCalls
  /\ state' = FALSE
  /\ duration' = 0
  /\ ret' = "unit"
  /\ pc' = "control_pump_66"
  /\ UNCHANGED <<hwVars, cfgVars, loopVars, sleepLeft, pending, signals,
                 ghostVars, exitCode>>

\* an exception ends the call of control_pump in progress
unit_interrupt ==
  /\ pc \in PumpPcs
  /\ Region = "unit"
  /\ pc' = "unit"
  /\ UNCHANGED <<hwVars, cfgVars, loopVars, callVars, sleepLeft, pending,
                 signals, ghostVars, exitCode>>

UnitNext ==
  \/ unit_normalize \/ unit_activate \/ unit_deactivate \/ unit_interrupt
  \/ control_pump_on \/ control_pump_sleep \/ control_pump_off
  \/ control_pump_return \/ control_pump_false

UnitSpec == UnitInit /\ [][UnitNext]_vars

\* ================================================================ claims
Threshold == Rat(THRESHOLD_PERCENT, 1)
Dry == calib.dryRaw
Wet == calib.wetRaw
StrictlyBetween(r) == Wet < r /\ r < Dry
\* the statements of an iteration after its decision step
AfterDecision ==
  \/ pc \in {"main_loop_97", "main_loop_99"}
  \/ pc \in PumpPcs /\ ret = "main_loop_97"

\* C1: wherever a stop signal is observed in a run that reached main_loop,
\* the relay output is at the off (HIGH) level when the process exits.
C1_OffAtExit ==
  (pc = "exit" /\ entered) => relay = "HIGH"

\* C2: however main_loop terminates, cleanup has called control_pump(False)
\* exactly once and the relay is off when the process exits; once main_loop
\* runs, the output level changes only inside control_pump.
C2_TeardownOnce ==
  /\ []((pc = "exit" /\ entered) => (offCalls = 1 /\ relay = "HIGH"))
  /\ [][(entered /\ relay' # relay) => pc \in PumpPcs]_vars

\* C3: after the decision step of an iteration, control_pump(True,
\* PUMP_TIME_SEC) has been called exactly once if moisture < threshold and
\* the relay is off again once the call has returned; if moisture >=
\* threshold it has not been called and the relay is off.
C3_Decision ==
  AfterDecision =>
    IF RatLt(moisture.val, Threshold)
      THEN /\ iterPumpCalls = 1
           /\ state /\ duration = PUMP_TIME_SEC
           /\ (pc \in {"main_loop_97", "main_loop_99"} => relay = "HIGH")
      ELSE /\ iterPumpCalls = 0
           /\ relay = "HIGH"

\* Scenario A: 35.2 % is below the threshold, the pump has run and is off
C3_Witness ==
  /\ pc = "main_loop_97"
  /\ moisture.val = Rat(352, 10)
  /\ iterPumpCalls = 1
  /\ relay = "HIGH"

\* C4: control_pump(True, d) drives the relay LOW, keeps it LOW while the d
\* seconds pass, drives it HIGH only when they have passed, and is about to
\* return only with the relay HIGH; the relay goes LOW nowhere else and goes
\* HIGH only at line 70 or in control_pump(False).
C4_Activate ==
  /\ [](pc = "control_pump_69" => relay = "LOW")
  /\ [](pc = "control_pump_71" => relay = "HIGH")
  /\ [][(pc = "control_pump_66" /\ pc' = "control_pump_69")
           => (relay' = "LOW" /\ sleepLeft' = duration)]_vars
  /\ [][(pc = "control_pump_69" /\ pc' = "control_pump_71")
           => (sleepLeft = 0 /\ relay' = "HIGH")]_vars
  /\ [][(relay = "HIGH" /\ relay' = "LOW")
           => (pc = "control_pump_66" /\ state)]_vars
  /\ [][(relay = "LOW" /\ relay' = "HIGH")
           => (pc = "control_pump_69" \/ (pc = "control_pump_66" /\ ~state))]_vars

\* an activation of non-zero duration is about to return
C4_Witness ==
  /\ pc = "control_pump_71"
  /\ state /\ duration > 0 /\ sleepLeft = 0
  /\ relay = "HIGH"

\* C5: a raw value >= dryRaw gives exactly 0.0; with dryRaw > wetRaw a raw
\* value <= wetRaw gives exactly 100.0.
C5_Saturation ==
  sampled >= 0 =>
    /\ sampled >= Dry => (~moisture.err /\ moisture.val = [n |-> 0, d |-> 1])
    /\ (Dry > Wet /\ sampled <= Wet)
         => (~moisture.err /\ moisture.val = [n |-> 100, d |-> 1])

\* the wet point right after the dry point, under a proper calibration
C5_Witness ==
  /\ Dry > Wet
  /\ prev.raw = Dry /\ prev.out.val = [n |-> 0, d |-> 1]
  /\ sampled = Wet /\ moisture.val = [n |-> 100, d |-> 1]

\* C6: for a raw value strictly between wetRaw and dryRaw the result lies
\* strictly between 0 and 100, the clamp leaves it as interpolated, and of
\* two such raw values the larger never gives the larger result.
C6_Monotone ==
  (sampled >= 0 /\ StrictlyBetween(sampled)) =>
    /\ ~moisture.err
    /\ RatLt(Rat(0, 1), moisture.val) /\ RatLt(moisture.val, Rat(100, 1))
    /\ moisture.val = moisture.pre
    /\ (prev.raw >= 0 /\ StrictlyBetween(prev.raw)) =>
         /\ prev.raw <= sampled => RatLe(moisture.val, prev.out.val)
         /\ sampled <= prev.raw => RatLe(prev.out.val, moisture.val)

\* two different raw values inside the calibrated range, in increasing order
C6_Witness ==
  /\ StrictlyBetween(prev.raw) /\ StrictlyBetween(sampled)
  /\ prev.raw < sampled
  /\ RatLt(moisture.val, prev.out.val)

\* C7: for a raw value strictly between the calibration points the result
\* is (dryRaw - raw) / (dryRaw - wetRaw) * 100; with 25000 / 15000 the raw
\* value 20000 gives 50.0.
C7_Interpolation ==
  (sampled >= 0 /\ StrictlyBetween(sampled)) =>
    /\ ~moisture.err
    /\ moisture.val = Rat((Dry - sampled) * 100, Dry - Wet)
    /\ (Dry = 25000 /\ Wet = 15000 /\ sampled = 20000)
         => moisture.val = [n |-> 50, d |-> 1]

C7_Witness ==
  /\ Dry = 25000 /\ Wet = 15000 /\ sampled = 20000
  /\ moisture.val = [n |-> 50, d |-> 1]

\* C8: with dryRaw <= wetRaw every raw value takes one of the two
\* saturation arms: the division is never evaluated and no
\* ZeroDivisionError is raised.
C8_NoDivision ==
  (sampled >= 0 /\ Dry <= Wet) =>
    (~moisture.err /\ moisture.branch \in {"dry", "wet"})

\* dryRaw = wetRaw, sampled at the common point after a value below it
C8_Witness ==
  /\ Dry = Wet
  /\ prev.raw >= 0 /\ prev.raw < Wet /\ prev.out.branch = "wet"
  /\ sampled = Dry /\ moisture.branch = "dry"

\* C9: after control_pump(False) the relay is HIGH and the pin is still a
\* driven output; a second call in a row leaves the level the first call
\* left.
C9_DeactivateIdempotent ==
  /\ offCalls >= 1 => (relay = "HIGH" /\ pinDir = "OUT")
  /\ offCalls >= 2 => relay = firstOff.after

\* two calls in a row, the first of them with the pump on
C9_Witness ==
  /\ pc = "unit"
  /\ offCalls = 2
  /\ firstOff.before = "LOW" /\ firstOff.after = "HIGH"
  /\ relay = "HIGH"

C11_ReleasePaired ==
  (pc = "exit" /\ pinDir # "unset") => (offCalls >= 1 /\ pinDir = "released")

\* C12: after a hardware fault in setup() the process is over and main_loop
\* was never entered: no sensor read, no decision, no activation.
C12_StartupFaultFatal ==
  (pending = "HardwareFault" /\ ~entered) =>
    /\ pc = "exit"
    /\ sampled = -1
    /\ iterPumpCalls = 0
    /\ offCalls = 0

\* the I2C bus fails after the relay pin was configured
C12_Witness ==
  /\ pc = "exit"
  /\ pending = "HardwareFault" /\ ~entered
  /\ pinDir = "OUT" /\ ~i2c

\* C13: the process ends with status 0 only after a stop signal was caught
\* and cleanup() ran to its end (relay HIGH, GPIO released, nothing left to
\* re-raise), it does end with 0 then, and a hardware fault in setup() ends
\* it with a non-zero status.
C13_ExitStatus ==
  /\ exitCode = "zero" =>
       /\ pc = "exit" /\ entered /\ signals >= 1 /\ pending = "none"
       /\ offCalls = 1 /\ relay = "HIGH" /\ pinDir = "released"
  /\ (pc = "exit" /\ pending = "none") => exitCode = "zero"
  /\ (pc = "exit" /\ pending # "none") => exitCode = "nonzero"

\* one Ctrl-C in the loop, teardown done, status 0
C13_Witness ==
  /\ pc = "exit"
  /\ exitCode = "zero"
  /\ signals = 1 /\ sampled >= 0
  /\ pinDir = "released"

\* C14: the sensor is sampled, the decision taken and the inter-poll sleep
\* spent only with the relay off, and control_pump(True, ...) is entered
\* only with the relay off.
C14_Sequential ==
  /\ pc \in LoopPcs => relay = "HIGH"
  /\ (pc = "control_pump_66" /\ state) => relay = "HIGH"

\* the inter-poll sleep of an iteration that watered
C14_Witness ==
  /\ pc = "main_loop_99" /\ sleepLeft > 0
  /\ iterPumpCalls = 1
  /\ relay = "HIGH"

\* C15: once a stop signal was observed no statement of the loop or of an
\* activation runs any more, and the process ends only with
\* control_pump(False) called and the GPIO released.
C15_StopEndsLoop ==
  /\ (entered /\ signals >= 1) => ~(pc \in LoopPcs \/ Region = "try")
  /\ (pc = "exit" /\ entered /\ signals >= 1)
       => (offCalls = 1 /\ pinDir = "released")

\* C16: the status line of an iteration pairs a raw value with the percent
\* that raw value normalises to, and that percent is the one decided on.
C16_OneReading ==
  pc = "main_loop_89" =>
    /\ status.percent = Format1f(Normalize(status.raw, Dry, Wet).val)
    /\ moisture = Normalize(raw_value, Dry, Wet)

\* C17: with no stop signal and no fault the program is never in the except
\* or finally clause nor past it; a poll follows setup or a complete
\* inter-poll sleep of CHECK_INTERVAL_SEC; and in such a run the sensor is
\* polled again and again and a relay that is on goes off.
C17_RunsForever ==
  /\ []((signals = 0 /\ pending = "none")
          => (pc \in SetupPcs \/ pc \in LoopPcs \/ Region = "try"))
  /\ [][(pc # "main_loop_80" /\ pc' = "main_loop_80")
           => (pc = "main_116" \/ (pc = "main_loop_99" /\ sleepLeft = 0))]_vars
  /\ [][(pc = "main_loop_97" /\ pc' = "main_loop_99")
           => sleepLeft' = CHECK_INTERVAL_SEC]_vars
  /\ ([](signals = 0 /\ pending = "none"))
       => /\ []<>(pc = "main_loop_80")
          /\ []<>(pc = "main_loop_81")
          /\ ((pinDir = "OUT" /\ relay = "LOW") ~> relay = "HIGH")

\* a later poll of an undisturbed run, after an iteration that watered
C17_Witness ==
  /\ pc = "main_loop_80"
  /\ signals = 0 /\ pending = "none"
  /\ sampled >= 0 /\ iterPumpCalls = 1
  /\ sleepLeft = 0

\* C18: the sensor reads, the normalisation, the status line, the decision
\* and the inter-poll sleep leave the relay level and the pin as they are,
\* and no step changes the calibration or the configuration.
C18_Frame ==
  /\ [][(pc \in LoopPcs)
          => (relay' = relay /\ pinDir' = pinDir /\ gpioMode' = gpioMode)]_vars
  /\ [][calib' = calib /\ config' = config]_vars

\* a decision at exactly the threshold: no call, relay untouched
C18_Witness ==
  /\ pc = "main_loop_97"
  /\ sampled = 21000 /\ iterPumpCalls = 0
  /\ relay = "HIGH" /\ pinDir = "OUT"

====
